---------------------------- MODULE Spec2Model ----------------------------
(*************************************************************************)
(* Model of src/src/App.tsx: the hiking session tracker (the App         *)
(* component's state, its click handlers, its geolocation and timer      *)
(* callbacks and its passive effects) and the GPX exporter.              *)
(*                                                                       *)
(* Numbers.  TLC has integers only, so the floating-point quantities of  *)
(* the source are kept in fixed units:                                   *)
(*   latitude, longitude   hundredths of a degree                        *)
(*   altitude              metres                                        *)
(*   distance              metres          (source: km)                  *)
(*   speed of a fix        metres / second                               *)
(*   currentSpeed          tenths of km/h  (source: km/h)                *)
(*   avgSpeed              metres / hour   (source: km/h)                *)
(*   timestamp             milliseconds since the epoch                  *)
(*                                                                       *)
(* React.  A state setter called by a handler is applied at once (the    *)
(* update queue is applied in order, so this is what the next render     *)
(* computes).  The passive effects of a commit run later, as a step of   *)
(* their own (FlushEffects); React runs the effects still pending before *)
(* it renders again, so a click handler, whose update is rendered        *)
(* synchronously, runs them first.  A callback registered by an effect   *)
(* stays registered, with the values its closure captured, until the     *)
(* effect's cleanup has run.                                             *)
(*************************************************************************)
EXTENDS Integers, Sequences, FiniteSets, TLC

VARIABLES
    status,         \* useState 'idle' | 'active' | 'paused' | 'summary'
    points,         \* useState Point[]
    distance,       \* useState
    elapsedTime,    \* useState
    elevationGain,  \* useState
    maxAltitude,    \* useState
    currentSpeed,   \* useState
    avgSpeed,       \* useState
    heartRate,      \* useState number | null
    gpsSignal,      \* useState 'good' | 'fair' | 'poor' | 'none'
    calories,       \* useState
    gpsEffect,      \* the mounted GPS effect: the deps it ran with, its watchId
    watches,        \* the watches registered with navigator.geolocation
    timerEffect,    \* the mounted timer effect: the deps it ran with, its interval
    intervals,      \* the one-second intervals registered with window
    avgEffect,      \* the mounted average-speed effect: the deps it ran with
    bluetooth,      \* 'bluetooth' in navigator
    hrPending,      \* connectHeartRate calls awaiting the device
    hrSimulated,    \* intervals of startSimulated running
    hrDevice,       \* characteristicvaluechanged listeners attached
    download,       \* the document the download button last handed to the browser
    accepted        \* history: location samples handled since the session's start

sessionVars == <<status, points, distance, elapsedTime, elevationGain,
                 maxAltitude, currentSpeed, gpsSignal, calories>>
effectVars == <<gpsEffect, watches, timerEffect, intervals, avgEffect, avgSpeed>>
heartVars == <<heartRate, bluetooth, hrPending, hrSimulated, hrDevice>>
vars == <<status, points, distance, elapsedTime, elevationGain, maxAltitude,
          currentSpeed, avgSpeed, heartRate, gpsSignal, calories, gpsEffect,
          watches, timerEffect, intervals, avgEffect, bluetooth, hrPending,
          hrSimulated, hrDevice, download, accepted>>

-----------------------------------------------------------------------------
(* Bounds of the model *)

MaxPoints == 3      \* samples accepted per session
MaxTime == 2        \* elapsed seconds per session
MaxSources == 2     \* heart-rate connections attempted
HrSpread == 1       \* how far the simulated heart rate walks from its baseline
MaxRunTime == 3600  \* elapsed seconds of the long session of SpecTimer
MaxWalkTime == 6     \* elapsed seconds per session of SpecWalk

-----------------------------------------------------------------------------
(* Values *)

\* `null` of `number | null`, and `undefined` of an unset watchId / interval.
NULL == -1000000

\* JavaScript truthiness of a `number | null`: null and 0 are falsy.
Truthy(x) == x # NULL /\ x # 0

\* The fixes the location source delivers.  The three quantities of a fix are
\* independent in the source (position feeds distance, altitude feeds elevation
\* gain and maximum altitude, speed feeds currentSpeed), so every value of each
\* occurs in one fix and every ordered pair of values in two consecutive fixes.
Fixes ==
    { [lat |-> 0, lng |-> 0, alt |-> NULL, timestamp |-> 0,        speed |-> NULL],
      [lat |-> 0, lng |-> 1, alt |-> 0,    timestamp |-> 1000,     speed |-> 1],
      [lat |-> 1, lng |-> 1, alt |-> 5,    timestamp |-> 61001,    speed |-> NULL],
      [lat |-> 1, lng |-> 0, alt |-> 10,   timestamp |-> 90061010, speed |-> 2] }

\* setHeartRate(85) and the `: 85` of the simulated walk
HrBaseline == 85

\* Math.floor(Math.random() * 5) - 2
HrSteps == -2..2

\* heart rates a paired device reports
DeviceRates == {0, 72}

\* coords.accuracy of a fix (not stored in the point).
Accuracies == {19, 20, 49, 50}

Abs(x) == IF x < 0 THEN -x ELSE x

\* haversine(lat1, lon1, lat2, lon2) in metres, rounded, on the grid of Fixes
\* (0 or 0.01 degree): the values the source's formula yields with R = 6371 km.
\* On this grid the result depends on |dLat| and |dLon| only.
HaversineMetres(dLat, dLon) ==
    CASE dLat = 0 /\ dLon = 0 -> 0
      [] dLat = 0 /\ dLon = 1 -> 1112
      [] dLat = 1 /\ dLon = 0 -> 1112
      [] dLat = 1 /\ dLon = 1 -> 1573

haversine(lat1, lon1, lat2, lon2) ==
    HaversineMetres(Abs(lat2 - lat1), Abs(lon2 - lon1))

\* Elapsed seconds t at which 6.0 * 70 * (t / 3600) is mathematically n + 1/2 but
\* the IEEE-754 double product falls just below it (t / 3600 is rounded down
\* before the multiplication), for t up to 4000.
HalfLost == {1950, 2070, 2190, 3690, 3930}

\* Math.round(6.0 * 70 * (newTime / 3600)): round half up of 7 t / 60, except
\* where the double product has lost the half.
CaloriesAt(newTime) ==
    IF newTime \in HalfLost THEN (7 * newTime) \div 60
    ELSE (7 * newTime + 30) \div 60

\* distance / (elapsedTime / 3600), in metres per hour
AvgSpeedOf(d, t) == (d * 3600) \div t

\* Mutant of SignalOf: the thresholds are inclusive.
SignalInclusive(accuracy) ==
    IF accuracy <= 20 THEN "good"
    ELSE IF accuracy <= 50 THEN "fair"
    ELSE "poor"

\* accuracy < 20 ? 'good' : accuracy < 50 ? 'fair' : 'poor'
SignalOf(accuracy) ==
    IF accuracy < 20 THEN "good"
    ELSE IF accuracy < 50 THEN "fair"
    ELSE "poor"

Last(s) == s[Len(s)]

-----------------------------------------------------------------------------
(* generateGPX.  The document is kept as its sequence of lines, a line as  *)
(* the tuple of its element name and the strings interpolated into it.     *)

Digit(d) ==
    CASE d = 0 -> "0" [] d = 1 -> "1" [] d = 2 -> "2" [] d = 3 -> "3"
      [] d = 4 -> "4" [] d = 5 -> "5" [] d = 6 -> "6" [] d = 7 -> "7"
      [] d = 8 -> "8" [] d = 9 -> "9"

RECURSIVE NatToString(_)
NatToString(n) ==
    IF n < 10 THEN Digit(n) ELSE NatToString(n \div 10) \o Digit(n % 10)

\* `${n}` of an integral number
IntToString(n) == IF n < 0 THEN "-" \o NatToString(-n) ELSE NatToString(n)

\* `${x}` of a coordinate of c hundredths of a degree: 1 -> "0.01", 10 -> "0.1"
DegreesToString(c) ==
    LET a == Abs(c)
        frac == IF a % 100 = 0 THEN ""
                ELSE IF a % 10 = 0 THEN "." \o Digit((a % 100) \div 10)
                ELSE "." \o Digit((a % 100) \div 10) \o Digit(a % 10)
    IN  (IF c < 0 THEN "-" ELSE "") \o NatToString(a \div 100) \o frac

\* n.toString().padStart(width, '0') as toISOString pads its fields
RECURSIVE Pad(_, _)
Pad(n, width) ==
    IF width <= 1 THEN NatToString(n)
    ELSE IF n < 10 THEN "0" \o Pad(n, width - 1)
    ELSE Pad(n \div 10, width - 1) \o Digit(n % 10)

\* new Date(timestamp).toISOString(), for a timestamp within January 1970
ToISOString(timestamp) ==
    LET ms == timestamp % 1000
        sec == (timestamp \div 1000) % 60
        min == (timestamp \div 60000) % 60
        hour == (timestamp \div 3600000) % 24
        day == timestamp \div 86400000
    IN  "1970-01-" \o Pad(day + 1, 2) \o "T" \o Pad(hour, 2) \o ":" \o Pad(min, 2)
            \o ":" \o Pad(sec, 2) \o "." \o Pad(ms, 3) \o "Z"

\* the lines one point adds: if (p.alt) guards the <ele> line
TrkptLines(p) ==
    <<  <<"trkpt", DegreesToString(p.lat), DegreesToString(p.lng)>>  >>
    \o (IF Truthy(p.alt) THEN <<  <<"ele", IntToString(p.alt)>>  >> ELSE <<>>)
    \o <<  <<"time", ToISOString(p.timestamp)>>, <<"/trkpt">>  >>

\* Mutant of TrksegLines: the points are written last to first.
RECURSIVE TrksegLinesReversed(_)
TrksegLinesReversed(ps) ==
    IF ps = <<>> THEN <<>> ELSE TrksegLinesReversed(Tail(ps)) \o TrkptLines(Head(ps))

RECURSIVE TrksegLines(_)
TrksegLines(ps) ==
    IF ps = <<>> THEN <<>> ELSE TrkptLines(Head(ps)) \o TrksegLines(Tail(ps))

generateGPX(ps) ==
    <<  <<"?xml", "1.0", "UTF-8">>,
        <<"gpx", "1.1", "Web Wear OS Hiking App">>,
        <<"trk">>,
        <<"name", "Hiking Session">>,
        <<"trkseg">>  >>
    \o TrksegLines(ps)
    \o <<  <<"/trkseg">>, <<"/trk">>, <<"/gpx">>  >>

-----------------------------------------------------------------------------
(* The state after the component has mounted and its effects have run once *)

Init ==
    /\ status = "idle"
    /\ points = <<>>
    /\ distance = 0
    /\ elapsedTime = 0
    /\ elevationGain = 0
    /\ maxAltitude = 0
    /\ currentSpeed = 0
    /\ avgSpeed = 0
    /\ gpsSignal = "none"
    /\ calories = 0
    /\ gpsEffect = [status |-> "idle", maxAltitude |-> 0, watchId |-> NULL]
    /\ watches = {}
    /\ timerEffect = [status |-> "idle", interval |-> NULL]
    /\ intervals = {}
    /\ avgEffect = [distance |-> 0, elapsedTime |-> 0]
    /\ heartRate = NULL
    /\ bluetooth \in BOOLEAN
    /\ hrPending = 0
    /\ hrSimulated = 0
    /\ hrDevice = 0
    /\ download = <<>>
    /\ accepted = 0

-----------------------------------------------------------------------------
(* Passive effects (useEffect): cleanup of the mounted instance, then the body *)

WatchIds(ws) == {w.id : w \in ws}

\* A handle the browser has not handed out among `used` (handles are opaque).
FreshId(used) == CHOOSE i \in 1..(Cardinality(used) + 1) : i \notin used

\* deps [status, maxAltitude] differ from those the mounted instance ran with
GpsStale == gpsEffect.status # status \/ gpsEffect.maxAltitude # maxAltitude

\* deps [status]
TimerStale == timerEffect.status # status

\* deps [distance, elapsedTime]
AvgStale == avgEffect.distance # distance \/ avgEffect.elapsedTime # elapsedTime

EffectsPending == GpsStale \/ TimerStale \/ AvgStale

\* Mutant of WatchesCleared: the cleanup clears nothing.
WatchesKept == watches

\* cleanup of the GPS effect: if (watchId !== undefined) clearWatch(watchId)
WatchesCleared ==
    IF gpsEffect.watchId # NULL
    THEN {w \in watches : w.id # gpsEffect.watchId}
    ELSE watches

\* body of the GPS effect: if (status === 'active') watchId = watchPosition(...);
\* the success callback closes over this render's maxAltitude.
GpsEffectRun ==
    IF status = "active"
    THEN LET id == FreshId(WatchIds(WatchesCleared))
         IN  [effect |-> [status |-> status, maxAltitude |-> maxAltitude, watchId |-> id],
              watches |-> WatchesCleared \cup {[id |-> id, maxAltitude |-> maxAltitude]}]
    ELSE [effect |-> [status |-> status, maxAltitude |-> maxAltitude, watchId |-> NULL],
          watches |-> WatchesCleared]

\* cleanup of the timer effect: clearInterval(interval), a no-op on undefined
IntervalsCleared == intervals \ {timerEffect.interval}

\* body of the timer effect: if (status === 'active') interval = setInterval(...)
TimerEffectRun ==
    IF status = "active"
    THEN LET id == FreshId(IntervalsCleared)
         IN  [effect |-> [status |-> status, interval |-> id],
              intervals |-> IntervalsCleared \cup {id}]
    ELSE [effect |-> [status |-> status, interval |-> NULL],
          intervals |-> IntervalsCleared]

\* body of the average-speed effect: if (elapsedTime > 0) setAvgSpeed(...)
AvgEffectRun ==
    IF elapsedTime > 0 THEN AvgSpeedOf(distance, elapsedTime) ELSE avgSpeed

\* Every effect whose deps changed runs; the others are left alone.
RunEffects ==
    /\ gpsEffect' = IF GpsStale THEN GpsEffectRun.effect ELSE gpsEffect
    /\ watches' = IF GpsStale THEN GpsEffectRun.watches ELSE watches
    /\ timerEffect' = IF TimerStale THEN TimerEffectRun.effect ELSE timerEffect
    /\ intervals' = IF TimerStale THEN TimerEffectRun.intervals ELSE intervals
    /\ avgEffect' = [distance |-> distance, elapsedTime |-> elapsedTime]
    /\ avgSpeed' = IF AvgStale THEN AvgEffectRun ELSE avgSpeed

\* React runs the passive effects of the last commit.
FlushEffects ==
    /\ EffectsPending
    /\ RunEffects
    /\ UNCHANGED <<sessionVars, heartVars, download, accepted>>

-----------------------------------------------------------------------------
(* Click handlers.  A button exists only in the status that renders it. *)

\* connectHeartRate up to its first await: without bluetooth startSimulated()
\* (setHeartRate(85), one more interval), with it a pending requestDevice
\* (at most MaxSources connections are attempted in a run of the model)
connectHeartRate ==
    /\ hrPending + hrSimulated + hrDevice < MaxSources
    /\ heartRate' = IF bluetooth THEN heartRate ELSE HrBaseline
    /\ hrSimulated' = IF bluetooth THEN hrSimulated ELSE hrSimulated + 1
    /\ hrPending' = IF bluetooth THEN hrPending + 1 ELSE hrPending
    /\ UNCHANGED <<bluetooth, hrDevice>>

\* handleStart, the button of status === 'idle'
handleStart ==
    /\ status = "idle"
    /\ RunEffects
    /\ IF ~Truthy(heartRate) THEN connectHeartRate ELSE UNCHANGED heartVars
    /\ status' = "active"
    /\ accepted' = 0
    /\ UNCHANGED <<points, distance, elapsedTime, elevationGain, maxAltitude,
                   currentSpeed, gpsSignal, calories, download>>

\* Mutant of Pause: pausing also clears the recorded points.
PauseClearsPoints ==
    /\ status = "active"
    /\ RunEffects
    /\ status' = "paused"
    /\ points' = <<>>
    /\ UNCHANGED <<distance, elapsedTime, elevationGain, maxAltitude,
                   currentSpeed, gpsSignal, calories, heartVars, download, accepted>>

\* the pause button of status === 'active': setStatus('paused')
Pause ==
    /\ status = "active"
    /\ RunEffects
    /\ status' = "paused"
    /\ UNCHANGED <<points, distance, elapsedTime, elevationGain, maxAltitude,
                   currentSpeed, gpsSignal, calories, heartVars, download, accepted>>

\* the stop button of status === 'active' || status === 'paused'
Stop ==
    /\ status \in {"active", "paused"}
    /\ RunEffects
    /\ status' = "summary"
    /\ UNCHANGED <<points, distance, elapsedTime, elevationGain, maxAltitude,
                   currentSpeed, gpsSignal, calories, heartVars, download, accepted>>

\* the reset button of the summary view
Reset ==
    /\ status = "summary"
    /\ RunEffects
    /\ status' = "idle"
    /\ points' = <<>>
    /\ distance' = 0
    /\ elapsedTime' = 0
    /\ elevationGain' = 0
    /\ maxAltitude' = 0
    /\ calories' = 0
    /\ UNCHANGED <<currentSpeed, gpsSignal, heartVars, download, accepted>>

\* the download button of the summary view: generateGPX(points) into a blob
Download ==
    /\ status = "summary"
    /\ download' = generateGPX(points)
    /\ UNCHANGED <<sessionVars, effectVars, heartVars, accepted>>

-----------------------------------------------------------------------------
(* Callbacks of the subscriptions the effects registered *)

\* Mutant of DistanceAfter: the leg is measured from the first point of the
\* sequence instead of the last.
DistanceFromFirst(prev, newPoint) ==
    IF Len(prev) > 0
    THEN distance + haversine(prev[1].lat, prev[1].lng, newPoint.lat, newPoint.lng)
    ELSE distance

\* the setDistance call of the setPoints updater
DistanceAfter(prev, newPoint) ==
    IF Len(prev) > 0
    THEN distance + haversine(Last(prev).lat, Last(prev).lng, newPoint.lat, newPoint.lng)
    ELSE distance

\* Mutant of ElevationGainAfter: the altitude difference is added whatever its
\* sign.
ElevationGainSigned(prev, newPoint) ==
    IF Len(prev) > 0
    THEN IF Truthy(newPoint.alt) /\ Truthy(Last(prev).alt)
         THEN elevationGain + (newPoint.alt - Last(prev).alt)
         ELSE elevationGain
    ELSE elevationGain

\* the setElevationGain call of the setPoints updater
ElevationGainAfter(prev, newPoint) ==
    IF Len(prev) > 0
    THEN IF /\ Truthy(newPoint.alt)
            /\ Truthy(Last(prev).alt)
            /\ newPoint.alt > Last(prev).alt
         THEN elevationGain + (newPoint.alt - Last(prev).alt)
         ELSE elevationGain
    ELSE elevationGain

\* the setMaxAltitude call of the setPoints updater; closureMax is the
\* maxAltitude of the render whose effect registered the callback
MaxAltitudeAfter(newPoint, closureMax) ==
    IF Truthy(newPoint.alt) /\ newPoint.alt > closureMax
    THEN newPoint.alt
    ELSE maxAltitude

\* watchPosition success callback of watch w, delivering `fix`
OnPosition(w, fix, accuracy) ==
    /\ w \in watches
    /\ Len(points) < MaxPoints
    /\ gpsSignal' = SignalOf(accuracy)
    /\ distance' = DistanceAfter(points, fix)
    /\ elevationGain' = ElevationGainAfter(points, fix)
    /\ maxAltitude' = MaxAltitudeAfter(fix, w.maxAltitude)
    /\ points' = Append(points, fix)
    /\ currentSpeed' = IF fix.speed # NULL THEN fix.speed * 36 ELSE currentSpeed
    /\ accepted' = accepted + 1
    /\ UNCHANGED <<status, elapsedTime, calories, effectVars, heartVars, download>>

\* Mutant of OnError: a fix error ends the session.
OnErrorEndsSession(w) ==
    /\ w \in watches
    /\ gpsSignal' = "none"
    /\ status' = "summary"
    /\ UNCHANGED <<points, distance, elapsedTime, elevationGain,
                   maxAltitude, currentSpeed, calories, effectVars, heartVars,
                   download, accepted>>

\* Mutant of OnError: losing the fix also zeroes the current speed.
OnErrorClearsSpeed(w) ==
    /\ w \in watches
    /\ gpsSignal' = "none"
    /\ currentSpeed' = 0
    /\ UNCHANGED <<status, points, distance, elapsedTime, elevationGain,
                   maxAltitude, calories, effectVars, heartVars,
                   download, accepted>>

\* watchPosition error callback
OnError(w) ==
    /\ w \in watches
    /\ gpsSignal' = "none"
    /\ UNCHANGED <<status, points, distance, elapsedTime, elevationGain,
                   maxAltitude, currentSpeed, calories, effectVars, heartVars,
                   download, accepted>>

\* setInterval callback of interval i, for sessions of up to `limit` seconds
TimerTick(i, limit) ==
    /\ i \in intervals
    /\ elapsedTime < limit
    /\ elapsedTime' = elapsedTime + 1
    /\ calories' = CaloriesAt(elapsedTime + 1)
    /\ UNCHANGED <<status, points, distance, elevationGain, maxAltitude,
                   currentSpeed, gpsSignal, effectVars, heartVars, download, accepted>>

\* the awaits of connectHeartRate succeed: the listener is attached
ConnectSucceeds ==
    /\ hrPending > 0
    /\ hrPending' = hrPending - 1
    /\ hrDevice' = hrDevice + 1
    /\ UNCHANGED <<sessionVars, effectVars, heartRate, bluetooth, hrSimulated,
                   download, accepted>>

\* an await of connectHeartRate throws: catch, startSimulated()
ConnectFails ==
    /\ hrPending > 0
    /\ hrPending' = hrPending - 1
    /\ heartRate' = HrBaseline
    /\ hrSimulated' = hrSimulated + 1
    /\ UNCHANGED <<sessionVars, effectVars, bluetooth, hrDevice, download, accepted>>

\* the two-second interval of startSimulated
SimulatedBeat(step) ==
    /\ hrSimulated > 0
    /\ heartRate' = IF Truthy(heartRate) THEN heartRate + step ELSE HrBaseline
    /\ Abs(heartRate' - HrBaseline) <= HrSpread
    /\ UNCHANGED <<sessionVars, effectVars, bluetooth, hrPending, hrSimulated,
                   hrDevice, download, accepted>>

\* the characteristicvaluechanged listener: setHeartRate(hr)
DeviceBeat(hr) ==
    /\ hrDevice > 0
    /\ heartRate' = hr
    /\ UNCHANGED <<sessionVars, effectVars, bluetooth, hrPending, hrSimulated,
                   hrDevice, download, accepted>>

HeartBeat == \E step \in HrSteps : SimulatedBeat(step)

HeartReading == \E hr \in DeviceRates : DeviceBeat(hr)

Tick == \E i \in intervals : TimerTick(i, MaxTime)

\* the location source delivers one of `fixes`
PositionFrom(fixes, accuracies) ==
    \E w \in watches, fix \in fixes, accuracy \in accuracies :
        OnPosition(w, fix, accuracy)

Position == PositionFrom(Fixes, Accuracies)

PositionError == \E w \in watches : OnError(w)

Next ==
    \/ handleStart
    \/ Pause
    \/ Stop
    \/ Reset
    \/ Position
    \/ PositionError
    \/ Tick
    \/ FlushEffects
    \/ Download
    \/ ConnectSucceeds
    \/ ConnectFails
    \/ HeartBeat
    \/ HeartReading

Spec == Init /\ [][Next]_vars

-----------------------------------------------------------------------------
(* Slices of Spec.  The parts of the component are independent: the        *)
(* heart-rate callbacks change heartVars only, which nothing but           *)
(* handleStart reads; Download changes download only; gpsSignal and        *)
(* currentSpeed are read by no handler.  Each slice lets some sources stay *)
(* silent, so that the others can be explored to the bounds.               *)

\* A browser without Web Bluetooth: connectHeartRate starts the simulated
\* heart rate at once.
InitNoBluetooth == Init /\ ~bluetooth

\* The session: clicks, location source, timer, effects.
NextTrack ==
    \/ handleStart
    \/ Pause
    \/ Stop
    \/ Reset
    \/ Position
    \/ PositionError
    \/ Tick
    \/ FlushEffects

SpecTrack == InitNoBluetooth /\ [][NextTrack]_vars

\* Every source of events, the location source delivering the fixes at 10 m.
HighFixes == {fix \in Fixes : fix.alt = 10}

HighPosition == PositionFrom(HighFixes, {19})

NextControl ==
    \/ handleStart
    \/ Pause
    \/ Stop
    \/ Reset
    \/ HighPosition
    \/ PositionError
    \/ Tick
    \/ FlushEffects
    \/ ConnectSucceeds
    \/ ConnectFails
    \/ HeartBeat
    \/ HeartReading

SpecControl == Init /\ [][NextControl]_vars

\* One long session: the timer alone, for up to MaxRunTime seconds.
LongTick == \E i \in intervals : TimerTick(i, MaxRunTime)

\* the effects of the commit that made the status active
StartTimer == TimerStale /\ FlushEffects

NextTimer ==
    \/ handleStart
    \/ LongTick
    \/ StartTimer

SpecTimer == InitNoBluetooth /\ [][NextTimer]_vars

\* One session and its export.
NextExport ==
    \/ handleStart
    \/ Position
    \/ Stop
    \/ Download
    \/ FlushEffects

SpecExport == InitNoBluetooth /\ [][NextExport]_vars

\* Sessions long enough for the calories to rise, on a path that climbs and
\* descends between 5 m and 10 m.
ClimbFixes == {fix \in Fixes : fix.alt \in {5, 10}}

ClimbPosition == PositionFrom(ClimbFixes, Accuracies)

WalkTick == \E i \in intervals : TimerTick(i, MaxWalkTime)

NextWalk ==
    \/ handleStart
    \/ Pause
    \/ Stop
    \/ Reset
    \/ ClimbPosition
    \/ PositionError
    \/ WalkTick
    \/ FlushEffects

SpecWalk == InitNoBluetooth /\ [][NextWalk]_vars


-----------------------------------------------------------------------------
(* Claims *)

\* the click handlers that set the status
UserClick == handleStart \/ Pause \/ Stop \/ Reset

AllowedTransitions ==
    { <<"idle", "active">>, <<"active", "paused">>, <<"paused", "active">>,
      <<"active", "summary">>, <<"paused", "summary">>, <<"summary", "idle">> }

\* C1: the status changes only in a step of a click handler and only along
\* start, pause, resume, stop and reset; from idle only start changes it, from
\* summary only reset; no sample, fix error, tick or heart-rate reading does.
C1_StatusChangesOnlyByUserActions ==
    [][status' # status =>
          /\ <<status, status'>> \in AllowedTransitions
          /\ UserClick
          /\ (status = "idle" => handleStart)
          /\ (status = "summary" => Reset)]_vars

\* A finished session that saw a sample, a tick, a heart rate and then a fix error.
C1_Witness ==
    /\ status = "summary"
    /\ Len(points) > 0
    /\ elapsedTime > 0
    /\ Truthy(heartRate)
    /\ gpsSignal = "none"

\* C2: while the status is not active, every step but reset leaves the point
\* sequence, distance, elevation gain, maximum altitude, elapsed time and
\* calories unchanged (a callback firing before its teardown included).
C2_NoIngestionOutsideActive ==
    [][(status # "active" /\ ~Reset) =>
          UNCHANGED <<points, distance, elevationGain, maxAltitude, elapsedTime,
                      calories>>]_vars

\* C3: in paused a click is available that makes the status active again.
C3_ResumeAvailable ==
    status = "paused" => ENABLED (UserClick /\ status' = "active")

\* C4: in idle the point sequence is empty and every derived metric is zero.
C4_IdleIsZero ==
    status = "idle" =>
        /\ points = <<>>
        /\ distance = 0
        /\ elapsedTime = 0
        /\ elevationGain = 0
        /\ maxAltitude = 0
        /\ currentSpeed = 0
        /\ avgSpeed = 0
        /\ calories = 0

\* C5: once the average-speed effect has run on the current distance and elapsed
\* time, average speed is 0 at elapsed time 0 and distance / hours otherwise.
C5_AverageSpeedDerived ==
    ~AvgStale =>
        avgSpeed = IF elapsedTime = 0 THEN 0 ELSE AvgSpeedOf(distance, elapsedTime)

RECURSIVE PathLength(_)
PathLength(ps) ==
    IF Len(ps) < 2 THEN 0
    ELSE haversine(ps[1].lat, ps[1].lng, ps[2].lat, ps[2].lng) + PathLength(Tail(ps))

\* C6: cumulative distance is the sum of the great-circle distances of the
\* consecutive pairs of the point sequence (0 for fewer than two points).
C6_DistanceIsPathLength == distance = PathLength(points)

\* Three points whose two legs differ in length.
C6_Witness ==
    /\ Len(points) = 3
    /\ haversine(points[1].lat, points[1].lng, points[2].lat, points[2].lng) = 1112
    /\ haversine(points[2].lat, points[2].lng, points[3].lat, points[3].lng) = 1573
    /\ distance = 2685

\* C7: a sample appended after a predecessor adds its altitude gain over the
\* predecessor when both altitudes are present (any number) and it is higher,
\* and leaves elevation gain unchanged otherwise.
C7_ElevationGainPerSample ==
    [][(Len(points) > 0 /\ Len(points') = Len(points) + 1) =>
          LET prev == Last(points)
              new == Last(points')
          IN  elevationGain' =
                  IF prev.alt # NULL /\ new.alt # NULL /\ new.alt > prev.alt
                  THEN elevationGain + (new.alt - prev.alt)
                  ELSE elevationGain]_vars

\* C8: calories is 6.0 * 70 * elapsedTime / 3600 rounded to the nearest integer,
\* halves up, in every state.
C8_CaloriesFormula ==
    calories = (2 * 420 * elapsedTime + 3600) \div 7200

\* C9: the point sequence has as many points as samples were handled since the
\* session started; a step that is not reset leaves it unchanged or appends the
\* delivered sample at its end, and reset empties it.
C9_AppendOnlyLog ==
    /\ [](status # "idle" => Len(points) = accepted)
    /\ [][IF Reset
          THEN points' = <<>>
          ELSE \/ points' = points
               \/ \E fix \in Fixes :
                      /\ points' = Append(points, fix)
                      /\ accepted' = accepted + 1]_vars

\* A second session (the stale average speed is the first one's) that was
\* paused with its points kept.
C9_Witness ==
    /\ status = "paused"
    /\ Len(points) = 2
    /\ accepted = 2
    /\ elapsedTime = 0
    /\ avgSpeed > 0

\* the lines of the document that open a <trkpt>
TrkptStarts(doc) == {i \in 1..Len(doc) : doc[i][1] = "trkpt"}

\* the lines of the k-th <trkpt> ... </trkpt> of the document
TrkptBlock(doc, k) ==
    LET first == CHOOSE i \in TrkptStarts(doc) :
                     Cardinality({j \in TrkptStarts(doc) : j <= i}) = k
        last == CHOOSE j \in first..Len(doc) :
                    /\ doc[j][1] = "/trkpt"
                    /\ \A m \in first..(j - 1) : doc[m][1] # "/trkpt"
    IN  SubSeq(doc, first, last)

LinesOf(block, tag) == {i \in 1..Len(block) : block[i][1] = tag}

\* C10: the exported document has, for every point, a <trkpt> with a <time>,
\* and an <ele> carrying the altitude exactly when the altitude is not null.
C10_EleIffAltitudeKnown ==
    [][download' # download =>
          /\ Cardinality(TrkptStarts(download')) = Len(points)
          /\ \A k \in 1..Len(points) :
                 LET block == TrkptBlock(download', k)
                 IN  /\ Cardinality(LinesOf(block, "time")) = 1
                     /\ IF points[k].alt # NULL
                        THEN \E i \in LinesOf(block, "ele") :
                                 /\ LinesOf(block, "ele") = {i}
                                 /\ block[i][2] = IntToString(points[k].alt)
                        ELSE LinesOf(block, "ele") = {}]_vars

\* C11: a fix error delivered while active sets the GPS signal to none and
\* leaves status, points, distance, elevation gain, maximum altitude, current
\* speed, elapsed time and calories as they were, the subscription included;
\* a fix delivered while the signal is none is appended like any other.
C11_ErrorOnlyDropsSignal ==
    /\ [][(status = "active" /\ PositionError) =>
             /\ gpsSignal' = "none"
             /\ UNCHANGED <<status, points, distance, elevationGain, maxAltitude,
                            currentSpeed, elapsedTime, calories>>
             /\ watches' = watches /\ watches' # {}]_vars
    /\ [][(status = "active" /\ gpsSignal = "none" /\ Position) =>
             /\ Len(points') = Len(points) + 1
             /\ Last(points') \in Fixes
             /\ gpsSignal' # "none"]_vars

\* The signal was lost in a running session that has points, speed and time.
C11_Witness ==
    /\ status = "active"
    /\ gpsSignal = "none"
    /\ Len(points) = 2
    /\ currentSpeed > 0
    /\ elapsedTime > 0

\* C12: while the status is not active and stays not active, no step changes
\* the heart rate: neither the simulated generator nor the device stream
\* delivers a reading when the session is paused, stopped or reset.
C12_HeartRateQuietOutsideActive ==
    [][(status # "active" /\ status' # "active") => heartRate' = heartRate]_vars

\* C13: from start up to reset, no step lowers the distance, the elevation
\* gain or the calories, whatever the interleaving of fixes, ticks, fix
\* errors, pause and stop.
C13_MetricsNeverDecrease ==
    [][~Reset =>
          /\ distance' >= distance
          /\ elevationGain' >= elevationGain
          /\ calories' >= calories]_vars

\* A stopped session that climbed, descended and burnt a calorie.
C13_Witness ==
    /\ status = "summary"
    /\ Len(points) = 3
    /\ points[2].alt > points[3].alt
    /\ distance > 0
    /\ elevationGain > 0
    /\ calories > 0

\* `${x}` of the coordinates the location source delivers, as JavaScript
\* prints the numbers 0 and 0.01
CoordText(c) == CASE c = 0 -> "0" [] c = 1 -> "0.01"

\* the lines of the document that carry the element `tag`
TagLines(doc, tag) == {i \in 1..Len(doc) : doc[i][1] = tag}

\* C14: the exported document has one <trk> holding one <trkseg>; the segment
\* holds exactly one <trkpt> per point, in the order of the points, each with
\* the point's lat and lon and one <time>; no <trkpt> for the empty sequence.
C14_OneTrkptPerPointInOrder ==
    [][download' # download =>
          LET doc == download'
          IN  /\ \A tag \in {"trk", "/trk", "trkseg", "/trkseg"} :
                     Cardinality(TagLines(doc, tag)) = 1
              /\ \E t \in TagLines(doc, "trk"), s \in TagLines(doc, "trkseg"),
                    se \in TagLines(doc, "/trkseg"), te \in TagLines(doc, "/trk") :
                     /\ t < s /\ s < se /\ se < te
                     /\ \A i \in TrkptStarts(doc) : s < i /\ i < se
              /\ Cardinality(TrkptStarts(doc)) = Len(points)
              /\ Cardinality(TagLines(doc, "/trkpt")) = Len(points)
              /\ points = <<>> => TrkptStarts(doc) = {}
              /\ \A k \in 1..Len(points) :
                     LET block == TrkptBlock(doc, k)
                     IN  /\ block[1] = <<"trkpt", CoordText(points[k].lat),
                                         CoordText(points[k].lng)>>
                         /\ Cardinality(LinesOf(block, "time")) = 1]_vars

\* An exported track of three points at three different places.
C14_Witness ==
    /\ Len(points) = 3
    /\ download = generateGPX(points)
    /\ Cardinality(TrkptStarts(download)) = 3
    /\ Cardinality({<<points[k].lat, points[k].lng>> : k \in 1..3}) = 3

\* C15: while the session is active, a step that appends a point carrying
\* altitude a sets the maximum altitude to the larger of the current maximum
\* and a, a point without altitude leaves it unchanged, and no step lowers the
\* maximum, whichever subscription delivered the sample.
C15_RunningMaximum ==
    /\ [][(status = "active" /\ Len(points') = Len(points) + 1) =>
             LET a == Last(points').alt
             IN  maxAltitude' = IF a # NULL /\ a > maxAltitude THEN a ELSE maxAltitude]_vars
    /\ [][status = "active" => maxAltitude' >= maxAltitude]_vars

\* the number of subscriptions a settled state has in the given status
Expected(st) == IF st = "active" THEN 1 ELSE 0

\* C16: once the location effect has run on the current status and maximum
\* altitude, exactly one location watch is registered when the status is
\* active and none otherwise; once the timer effect has run on the current
\* status, the same holds of the one-second intervals.
C16_OneSubscriptionWhenSettled ==
    /\ ~GpsStale => Cardinality(watches) = Expected(status)
    /\ ~TimerStale => Cardinality(intervals) = Expected(status)

\* A second session, settled after its maximum altitude changed: the watch
\* registered is the one that captured the new maximum.
C16_Witness ==
    /\ status = "active"
    /\ ~EffectsPending
    /\ maxAltitude = 10
    /\ avgSpeed > 0 /\ elapsedTime = 0
    /\ \E w \in watches : watches = {w} /\ w.maxAltitude = 10
    /\ Cardinality(intervals) = 1

\* the signal quality the claim assigns to a fix of the given accuracy
QualityOf(accuracy) ==
    CASE accuracy \in 0..19 -> "good"
      [] accuracy \in 20..49 -> "fair"
      [] OTHER -> "poor"

\* C17: after a step that handles a fix of accuracy a, the GPS signal is good
\* when a < 20, fair when 20 <= a < 50 and poor when a >= 50; after a step
\* that handles a fix error it is none.
C17_SignalReflectsLastEvent ==
    /\ [][Len(points') = Len(points) + 1 =>
             \A accuracy \in Accuracies :
                 (\E w \in watches : OnPosition(w, Last(points'), accuracy)) =>
                     gpsSignal' = QualityOf(accuracy)]_vars
    /\ [][PositionError => gpsSignal' = "none"]_vars

\* A fix of fair accuracy was the last event handled after a first point.
C17_Witness ==
    /\ status = "active"
    /\ Len(points) = 2
    /\ gpsSignal = "fair"

\* C18: at most one heart-rate source is running at any time, the simulated
\* generators and the device streams counted together, whatever the sequence
\* of start, stop, reset and start again and the outcome of the connection
\* attempts.
C18_OneHeartRateSource == hrSimulated + hrDevice <= 1

=============================================================================
